---- MODULE Spec2Model ----
(***************************************************************************)
(* The lock-guarded birthdays aggregation cache of the citizens service:   *)
(* application/handlers/get_birthdays_handler.py and the citizens-list     *)
(* handler of application/service.py, run by several workers (threads of   *)
(* processes) that share one MongoDB database: the 'birthdays' and         *)
(* 'imports' collections and the lock collection of MongoLock.             *)
(***************************************************************************)
EXTENDS Integers, Sequences, FiniteSets, TLC

\* ------------------------------------------------------------------ bounds
NumWorkers == 2
MaxCalls == 3

MaxCitizens == 2
MaxRelatives == 2

\* ------------------------------------------------------- program constants
Expire == 60
Timeout == 10
Created == 201

Workers == 1..NumWorkers
ImportIds == {1, 2}
\* The ways the workers are spread over processes: threads of one process
\* share os.getpid(). Processes are numbered in the order of their first worker.
PidAssignments ==
    {f \in [Workers -> Workers] :
        \A w \in Workers : \A p \in 1..(f[w] - 1) : \E v \in 1..(w - 1) : f[v] = p}
\* Time is observed in ticks of twice the acquisition timeout, and kept
\* relative to the current instant: a time t is held as t - datetime.utcnow(),
\* and one that lies further back than a tick is held as one tick back.
TickLen == 2 * Timeout
utcnow == 0
Past(t) == IF t - TickLen < 0 - TickLen THEN 0 - TickLen ELSE t - TickLen

\* str(i)
Str(i) == ToString(i)
MonthKeys == {Str(i) : i \in 1..12}

\* The two resource names get_birthdays locks, and the one citizens locks.
ImportKey(i) == Str(i)
BirthdaysKey(i) == "birthdays_" \o Str(i)
Keys == {ImportKey(i) : i \in ImportIds} \cup {BirthdaysKey(i) : i \in ImportIds}

\* ----------------------------------------------------------------- datasets
\* The citizens of an import: 1 as imported, 2 with the relatives and a birth
\* date patched.
Citizens(v) ==
    IF v = 1
    THEN << [birth_date |-> [year |-> 2000, month |-> 3, day |-> 5], relatives |-> <<2, 3>>],
            [birth_date |-> [year |-> 2001, month |-> 3, day |-> 20], relatives |-> <<2>>] >>
    ELSE << [birth_date |-> [year |-> 2000, month |-> 3, day |-> 5], relatives |-> <<3>>],
            [birth_date |-> [year |-> 2001, month |-> 12, day |-> 20], relatives |-> <<2, 2>>] >>

\* The lists of citizens an import may hold, as get_citizens projects them:
\* a birth date and the relatives' citizen ids, repeated ones included.
Months == {3, 12}
CitizenIds == {2, 3}
BoundedSeq(S, n) == UNION {[1..k -> S] : k \in 0..n}
Residents ==
    {[birth_date |-> [year |-> 2000, month |-> m, day |-> 5], relatives |-> r] :
        m \in Months, r \in BoundedSeq(CitizenIds, MaxRelatives)}
ResidentLists == BoundedSeq(Residents, MaxCitizens)

\* --------------------------------------------------------------- aggregation
\* An insertion-ordered dict as a sequence of [key, value] entries.
HasKey(d, k) == \E j \in 1..Len(d) : d[j].key = k

\* Changed: a relative counted before is not counted again.
DictSetOne(d, k) ==
    IF HasKey(d, k) THEN d ELSE Append(d, [key |-> k, value |-> 1])

\* Changed: every relative gets an entry of its own.
DictAppend(d, k) == Append(d, [key |-> k, value |-> 1])

\* d[k] += 1 on a defaultdict(int).
DictInc(d, k) ==
    IF HasKey(d, k)
    THEN [j \in 1..Len(d) |-> IF d[j].key = k THEN [key |-> k, value |-> d[j].value + 1] ELSE d[j]]
    ELSE Append(d, [key |-> k, value |-> 1])

\* birthdays_data[month][relative_id] += 1 on the defaultdict of defaultdicts:
\* the month's dict is created by the first relative counted in it.
AddPresent(bd, month, relative_id) ==
    LET inner == IF month \in DOMAIN bd THEN bd[month] ELSE << >>
    IN  [m \in DOMAIN bd \cup {month} |->
            IF m = month THEN DictInc(inner, relative_id) ELSE bd[m]]

RECURSIVE CountRelatives(_, _, _)
CountRelatives(bd, month, relatives) ==
    IF relatives = << >> THEN bd
    ELSE CountRelatives(AddPresent(bd, month, Head(relatives)), month, Tail(relatives))

\* Changed: the loop stops after the first citizen.
FoldFirstCitizen(bd, citizens) ==
    IF citizens = << >> THEN bd
    ELSE CountRelatives(bd, Head(citizens).birth_date.month, Head(citizens).relatives)

RECURSIVE FoldCitizens(_, _)
FoldCitizens(bd, citizens) ==
    IF citizens = << >> THEN bd
    ELSE FoldCitizens(CountRelatives(bd, Head(citizens).birth_date.month, Head(citizens).relatives),
                      Tail(citizens))

EmptyDict == [m \in {} |-> << >>]

_get_birthdays_data(citizens) == FoldCitizens(EmptyDict, citizens)

\* [{'citizen_id': key, 'presents': value} for key, value in d.items()]
Items(d) == [j \in 1..Len(d) |-> [citizen_id |-> d[j].key, presents |-> d[j].value]]

\* Changed: the months are not set to empty lists first.
RepresentationOfPresentMonths(birthdays_data) ==
    [data |-> [k \in {Str(m) : m \in DOMAIN birthdays_data} |->
        Items(birthdays_data[CHOOSE m \in DOMAIN birthdays_data : Str(m) = k])]]

\* Changed: the months are range(1, 12).
RepresentationOfElevenMonths(birthdays_data) ==
    [data |-> [k \in {Str(i) : i \in 1..11} |->
        IF \E m \in DOMAIN birthdays_data : Str(m) = k
        THEN Items(birthdays_data[CHOOSE m \in DOMAIN birthdays_data : Str(m) = k])
        ELSE << >>]]

_get_birthdays_representation(birthdays_data) ==
    [data |-> [k \in MonthKeys |->
        IF \E m \in DOMAIN birthdays_data : Str(m) = k
        THEN Items(birthdays_data[CHOOSE m \in DOMAIN birthdays_data : Str(m) = k])
        ELSE << >>]]

\* -------------------------------------------------------------------- state
VARIABLES
    locks,      \* the lock collection: _id -> document
    birthdays,  \* db['birthdays'], in insertion order
    imports,    \* db['imports']: import_id -> its documents' citizens (none or one)
    pid,        \* os.getpid() of each worker
    pc,         \* each worker's position in its handler
    handler,    \* the handler a worker runs
    iid,        \* its import_id argument
    start_time, \* lock(): the local start_time
    bdata,      \* get_birthdays: the local birthdays_data
    ret,        \* what the call returns or raises
    holder,     \* history: the worker whose acquisition wrote each lock document
    leases,     \* history: the leases granted and not yet released
    inserted,   \* history: the workers whose call ran insert_one
    seen,       \* history: Len(birthdays) when the call in progress began
    calls       \* history: the requests that have arrived

vars == <<locks, birthdays, imports, pid, pc, handler, iid, start_time,
          bdata, ret, holder, leases, inserted, seen, calls>>

NoRet == [kind |-> "none"]
NoData == [data |-> << >>]

Init ==
    /\ locks = [k \in {} |-> 0]
    /\ birthdays = << >>
    /\ imports = [i \in ImportIds |-> IF i = 1 THEN << Citizens(1) >> ELSE << >>]
    /\ pid \in PidAssignments
    /\ pc = [w \in Workers |-> "idle"]
    /\ handler = [w \in Workers |-> "none"]
    /\ iid = [w \in Workers |-> 1]
    /\ start_time = [w \in Workers |-> 0]
    /\ bdata = [w \in Workers |-> NoData]
    /\ ret = [w \in Workers |-> NoRet]
    /\ holder = [k \in Keys |-> 0]
    /\ leases = {}
    /\ inserted = {}
    /\ seen = [w \in Workers |-> 0]
    /\ calls = 0

\* ------------------------------------------------------------ the lock store
LockedDoc(owner, exp) == [locked |-> TRUE, owner |-> owner, expire |-> exp]
ReleasedDoc == [locked |-> FALSE, owner |-> "None", expire |-> "None"]

Put(ls, key, doc) == [k \in DOMAIN ls \cup {key} |-> IF k = key THEN doc ELSE ls[k]]

\* collection.insert({'_id': key, ...}) raises DuplicateKeyError.
DuplicateKey(ls, key) == key \in DOMAIN ls

\* Changed: an expired lease is not taken over.
MatchesUnlocked(ls, key, dtnow) == key \in DOMAIN ls /\ ls[key].locked = FALSE

\* Changed: the update takes the document of the key as it is.
MatchesAnyDocument(ls, key, dtnow) == key \in DOMAIN ls

\* The query of _try_get_lock's update: the document of the key, unlocked or
\* with its expire before now (every locked document has an expire, and the
\* None of an unlocked one is before no time).
Matches(ls, key, dtnow) ==
    /\ key \in DOMAIN ls
    /\ IF ls[key].locked = FALSE THEN TRUE ELSE ls[key].expire < dtnow

\* release(key, owner): find_and_modify on {'_id': key, 'owner': owner}.
Releases(ls, key, owner) == key \in DOMAIN ls /\ ls[key].owner = owner
release(ls, key, owner) == IF Releases(ls, key, owner) THEN Put(ls, key, ReleasedDoc) ELSE ls

\* ----------------------------------------------------------------- handlers
\* The owner every handler passes: str(os.getpid()).
Owner(w) == Str(pid[w])

\* Changed: the resource names do not depend on the import_id.
KeyOfAnyImport(w, n) == IF n = 1 THEN ImportKey(1) ELSE BirthdaysKey(1)

\* Changed: every second worker locks f'birthdays_{import_id}' first.
KeyOfEitherOrder(w, n) ==
    IF (n = 1) = (w % 2 = 1) THEN ImportKey(iid[w]) ELSE BirthdaysKey(iid[w])

\* The n-th resource name a handler locks: str(import_id), then
\* f'birthdays_{import_id}'.
KeyOf(w, n) == IF n = 1 THEN ImportKey(iid[w]) ELSE BirthdaysKey(iid[w])

PcLock(n) == IF n = 1 THEN "lock1" ELSE "lock2"
PcTry(n) == IF n = 1 THEN "try1" ELSE "try2"
PcCheck(n) == IF n = 1 THEN "check1" ELSE "check2"
PcRelease(n) == IF n = 1 THEN "release1" ELSE "release2"

\* Where a handler goes on with the n-th lease acquired.
PcLocked(w, n) ==
    IF n = 2 THEN "lookup"
    ELSE IF handler[w] = "get_birthdays" THEN "lock2" ELSE "find"

\* Changed: the first lease is not released when the second is not acquired.
PcLockFailedKeepsFirst(n) == "done"

\* Changed: the block is entered although the second lease was not acquired.
PcLockFailedEntersBlock(n) == IF n = 1 THEN "done" ELSE "lookup"

\* Where an exception raised while acquiring the n-th lease goes: the with
\* statement releases the leases entered before it.
PcLockFailed(n) == IF n = 1 THEN "done" ELSE "release1"

\* Where a return or an exception inside the with block goes.
PcExit(w) == IF handler[w] = "get_birthdays" THEN "release2" ELSE "release1"

\* Where the exit of the n-th with item goes.
PcReleased(n) == IF n = 2 THEN "release1" ELSE "done"

Value(content) == [kind |-> "value", content |-> content, status |-> Created]
Raise(kind) == [kind |-> kind]

Grant(w, key, exp) ==
    /\ locks' = Put(locks, key, LockedDoc(Owner(w), exp))
    /\ holder' = [holder EXCEPT ![key] = w]
    /\ leases' = leases \cup {[worker |-> w, key |-> key, expire |-> exp]}

\* A request arrives: the route calls its handler.
Call(w, h, i) ==
    /\ pc[w] = "idle"
    /\ calls < MaxCalls
    /\ calls' = calls + 1
    /\ pc' = [pc EXCEPT ![w] = "lock1"]
    /\ handler' = [handler EXCEPT ![w] = h]
    /\ iid' = [iid EXCEPT ![w] = i]
    /\ seen' = [seen EXCEPT ![w] = Len(birthdays)]
    /\ UNCHANGED <<pid, locks, birthdays, imports, start_time, bdata, ret,
                   holder, leases, inserted>>

\* lock(key, owner, timeout=10, expire=60): the insert of the lock document is
\* tried, and a lease granted lives for expire from then.
Lock(w, n) ==
    /\ pc[w] = PcLock(n)
    /\ IF DuplicateKey(locks, KeyOf(w, n))
       THEN /\ start_time' = [start_time EXCEPT ![w] = utcnow]
            /\ pc' = [pc EXCEPT ![w] = PcTry(n)]
            /\ UNCHANGED <<locks, holder, leases>>
       ELSE /\ Grant(w, KeyOf(w, n), utcnow + Expire)
            /\ pc' = [pc EXCEPT ![w] = PcLocked(w, n)]
            /\ UNCHANGED start_time
    /\ UNCHANGED <<pid, calls, birthdays, imports, handler, iid, bdata, ret, inserted, seen>>

\* One round of the retry loop: _try_get_lock(key, owner, expire).
TryGetLock(w, n) ==
    /\ pc[w] = PcTry(n)
    /\ IF Matches(locks, KeyOf(w, n), utcnow)
       THEN /\ Grant(w, KeyOf(w, n), utcnow + Expire)
            /\ pc' = [pc EXCEPT ![w] = PcLocked(w, n)]
            /\ start_time' = [start_time EXCEPT ![w] = 0]
       ELSE /\ pc' = [pc EXCEPT ![w] = PcCheck(n)]
            /\ UNCHANGED <<locks, holder, leases, start_time>>
    /\ UNCHANGED <<pid, calls, birthdays, imports, handler, iid, bdata, ret, inserted, seen>>

\* Changed: giving up is reported as the import not being found.
CheckTimeoutAsNotFound(w, n) ==
    /\ pc[w] = PcCheck(n)
    /\ IF utcnow >= start_time[w] + Timeout
       THEN /\ ret' = [ret EXCEPT ![w] = Raise("NotFound")]
            /\ pc' = [pc EXCEPT ![w] = PcLockFailed(n)]
            /\ start_time' = [start_time EXCEPT ![w] = 0]
       ELSE /\ pc' = [pc EXCEPT ![w] = PcTry(n)]
            /\ UNCHANGED <<ret, start_time>>
    /\ UNCHANGED <<pid, calls, locks, birthdays, imports, handler, iid, bdata, holder, leases,
                   inserted, seen>>

\* The rest of the round: give up once timeout has passed since start_time
\* (lock returns False and __call__ raises MongoLockLocked), or sleep and retry.
CheckTimeout(w, n) ==
    /\ pc[w] = PcCheck(n)
    /\ IF utcnow >= start_time[w] + Timeout
       THEN /\ ret' = [ret EXCEPT ![w] = Raise("LockTimeout")]
            /\ pc' = [pc EXCEPT ![w] = PcLockFailed(n)]
            /\ start_time' = [start_time EXCEPT ![w] = 0]
       ELSE /\ pc' = [pc EXCEPT ![w] = PcTry(n)]
            /\ UNCHANGED <<ret, start_time>>
    /\ UNCHANGED <<pid, calls, locks, birthdays, imports, handler, iid, bdata, holder, leases,
                   inserted, seen>>

\* The exit of the n-th with item: release(key, owner).
Release(w, n) ==
    /\ pc[w] = PcRelease(n)
    /\ locks' = release(locks, KeyOf(w, n), Owner(w))
    /\ holder' = IF Releases(locks, KeyOf(w, n), Owner(w))
                 THEN [holder EXCEPT ![KeyOf(w, n)] = 0] ELSE holder
    /\ leases' = {l \in leases :
                    ~ /\ l.key = KeyOf(w, n)
                      /\ \/ l.worker = w
                         \/ /\ Releases(locks, KeyOf(w, n), Owner(w))
                            /\ l.worker = holder[KeyOf(w, n)]}
    /\ pc' = [pc EXCEPT ![w] = PcReleased(n)]
    /\ UNCHANGED <<pid, calls, birthdays, imports, handler, iid, start_time, bdata,
                   ret, inserted, seen>>

\* find_one({'import_id': import_id}, {'_id': 0, 'import_id': 0}): the first
\* matching document in natural order, without the projected-out fields.
Matching(coll, import_id) == {j \in 1..Len(coll) : coll[j].import_id = import_id}
First(coll, import_id) ==
    coll[CHOOSE j \in Matching(coll, import_id) : \A k \in Matching(coll, import_id) : j <= k]
\* Changed: import_id is not projected out.
ProjectWithoutId(doc) == [f \in DOMAIN doc \ {"_id"} |-> doc[f]]
Project(doc) == [f \in DOMAIN doc \ {"_id", "import_id"} |-> doc[f]]

_get_cached_birthdays(import_id, coll) ==
    IF Matching(coll, import_id) = {} THEN "None" ELSE Project(First(coll, import_id))

\* The document _cache_birthdays_data inserts; insert_one gives it its _id.
CacheDoc(import_id, birthdays_data, coll) ==
    [_id |-> Len(coll) + 1, import_id |-> import_id, data |-> birthdays_data.data]

\* shared.get_citizens(import_id, db, projection): the citizens of the import,
\* or the not-found error.
HasImport(import_id) == imports[import_id] # << >>
get_citizens(import_id) == imports[import_id][1]

\* A read or write of the database fails: the PyMongoError leaves the block.
StoreError(w) ==
    /\ pc[w] \in {"lookup", "citizens", "insert", "find"}
    /\ ret' = [ret EXCEPT ![w] = Raise("StoreUnavailable")]
    /\ pc' = [pc EXCEPT ![w] = PcExit(w)]
    /\ bdata' = [bdata EXCEPT ![w] = NoData]
    /\ UNCHANGED <<pid, calls, locks, birthdays, imports, handler, iid, start_time,
                   holder, leases, inserted, seen>>

\* get_birthdays, the cache lookup: a hit returns the cached data with 201.
Lookup(w) ==
    /\ pc[w] = "lookup"
    /\ IF Matching(birthdays, iid[w]) # {}
       THEN /\ ret' = [ret EXCEPT ![w] = Value(_get_cached_birthdays(iid[w], birthdays))]
            /\ pc' = [pc EXCEPT ![w] = PcExit(w)]
       ELSE /\ pc' = [pc EXCEPT ![w] = "citizens"]
            /\ UNCHANGED ret
    /\ UNCHANGED <<pid, calls, locks, birthdays, imports, handler, iid, start_time,
                   bdata, holder, leases, inserted, seen>>

\* Changed: an import that is not found counts as one without citizens.
ComputeMissingAsEmpty(w) ==
    /\ pc[w] = "citizens"
    /\ bdata' = [bdata EXCEPT ![w] =
            _get_birthdays_representation(_get_birthdays_data(
                IF HasImport(iid[w]) THEN get_citizens(iid[w]) ELSE << >>))]
    /\ pc' = [pc EXCEPT ![w] = "insert"]
    /\ UNCHANGED <<pid, calls, locks, birthdays, imports, handler, iid, start_time,
                   holder, leases, inserted, seen, ret>>

\* get_birthdays, the miss: read the citizens, count and represent.
Compute(w) ==
    /\ pc[w] = "citizens"
    /\ IF HasImport(iid[w])
       THEN /\ bdata' = [bdata EXCEPT ![w] =
                    _get_birthdays_representation(_get_birthdays_data(get_citizens(iid[w])))]
            /\ pc' = [pc EXCEPT ![w] = "insert"]
            /\ UNCHANGED ret
       ELSE /\ ret' = [ret EXCEPT ![w] = Raise("NotFound")]
            /\ pc' = [pc EXCEPT ![w] = PcExit(w)]
            /\ UNCHANGED bdata
    /\ UNCHANGED <<pid, calls, locks, birthdays, imports, handler, iid, start_time,
                   holder, leases, inserted, seen>>

\* get_birthdays, the end of the miss: cache the data and return it with 201.
Cache(w) ==
    /\ pc[w] = "insert"
    /\ birthdays' = Append(birthdays, CacheDoc(iid[w], bdata[w], birthdays))
    /\ inserted' = inserted \cup {w}
    /\ ret' = [ret EXCEPT ![w] = Value(bdata[w])]
    /\ pc' = [pc EXCEPT ![w] = PcExit(w)]
    /\ bdata' = [bdata EXCEPT ![w] = NoData]
    /\ UNCHANGED <<pid, calls, locks, imports, handler, iid, start_time, holder, leases, seen>>

\* strftime('%d.%m.%Y')
Pad2(n) == IF n < 10 THEN "0" \o ToString(n) ELSE ToString(n)
strftime(d) == Pad2(d.day) \o "." \o Pad2(d.month) \o "." \o ToString(d.year)

\* The body of the citizens-list handler.
Find(w) ==
    /\ pc[w] = "find"
    /\ IF HasImport(iid[w])
       THEN ret' = [ret EXCEPT ![w] = Value([data |->
                [j \in 1..Len(get_citizens(iid[w])) |->
                    [get_citizens(iid[w])[j] EXCEPT
                        !.birth_date = strftime(get_citizens(iid[w])[j].birth_date)]]])]
       ELSE ret' = [ret EXCEPT ![w] = Raise("NotFound")]
    /\ pc' = [pc EXCEPT ![w] = PcExit(w)]
    /\ UNCHANGED <<pid, calls, locks, birthdays, imports, handler, iid, start_time,
                   bdata, holder, leases, inserted, seen>>

\* The response is sent: the worker is free for the next request.
Return(w) ==
    /\ pc[w] = "done"
    /\ pc' = [pc EXCEPT ![w] = "idle"]
    /\ handler' = [handler EXCEPT ![w] = "none"]
    /\ iid' = [iid EXCEPT ![w] = 1]
    /\ ret' = [ret EXCEPT ![w] = NoRet]
    /\ inserted' = inserted \ {w}
    /\ seen' = [seen EXCEPT ![w] = 0]
    /\ UNCHANGED <<locks, birthdays, imports, pid, calls, start_time, bdata, holder, leases>>

\* The patch-citizen path rewrites the citizens of an import (to the other
\* dataset, or back), under the lease on str(import_id).
Patch(i) ==
    /\ HasImport(i)
    /\ ~DuplicateKey(locks, ImportKey(i)) \/ Matches(locks, ImportKey(i), utcnow)
    /\ imports' = [imports EXCEPT ![i] =
            IF imports[i] = << Citizens(1) >> THEN << Citizens(2) >> ELSE << Citizens(1) >>]
    /\ UNCHANGED <<locks, birthdays, pid, calls, pc, handler, iid, start_time, bdata,
                   ret, holder, leases, inserted, seen>>

\* Time passes: every time held moves one tick into the past.
InLock(w) == pc[w] \in {"try1", "check1", "try2", "check2"}
Tick ==
    /\ locks' = [k \in DOMAIN locks |->
                    IF locks[k].locked
                    THEN [locks[k] EXCEPT !.expire = Past(locks[k].expire)]
                    ELSE locks[k]]
    /\ leases' = {[l EXCEPT !.expire = Past(l.expire)] : l \in leases}
    /\ start_time' = [w \in Workers |->
                        IF InLock(w) THEN Past(start_time[w]) ELSE start_time[w]]
    /\ UNCHANGED <<pid, calls, birthdays, imports, pc, handler, iid, bdata, ret, holder,
                   inserted, seen>>

Handlers == {"get_birthdays", "citizens"}

Next ==
    \/ \E w \in Workers, h \in Handlers, i \in ImportIds : Call(w, h, i)
    \/ \E w \in Workers, n \in {1, 2} : Lock(w, n)
    \/ \E w \in Workers, n \in {1, 2} : TryGetLock(w, n)
    \/ \E w \in Workers, n \in {1, 2} : CheckTimeout(w, n)
    \/ \E w \in Workers, n \in {1, 2} : Release(w, n)
    \/ \E w \in Workers : Lookup(w)
    \/ \E w \in Workers : Compute(w)
    \/ \E w \in Workers : Cache(w)
    \/ \E w \in Workers : Find(w)
    \/ \E w \in Workers : StoreError(w)
    \/ \E w \in Workers : Return(w)
    \/ \E i \in ImportIds : Patch(i)
    \/ Tick

Spec == Init /\ [][Next]_vars

\* The steps of a worker's handler.
Step(w) ==
    \/ \E n \in {1, 2} : Lock(w, n) \/ TryGetLock(w, n) \/ CheckTimeout(w, n) \/ Release(w, n)
    \/ Lookup(w) \/ Compute(w) \/ Cache(w) \/ Find(w)

\* A run in which every worker serves one get_birthdays request, and keeps
\* the response.
NextOnce ==
    \/ \E w \in Workers, i \in ImportIds : Call(w, "get_birthdays", i)
    \/ \E w \in Workers, n \in {1, 2} : Lock(w, n)
    \/ \E w \in Workers, n \in {1, 2} : TryGetLock(w, n)
    \/ \E w \in Workers, n \in {1, 2} : CheckTimeout(w, n)
    \/ \E w \in Workers, n \in {1, 2} : Release(w, n)
    \/ \E w \in Workers : Lookup(w)
    \/ \E w \in Workers : Compute(w)
    \/ \E w \in Workers : Cache(w)
    \/ \E w \in Workers : StoreError(w)
    \/ Tick

\* Every worker's thread gets to run, the database answers, and time passes.
SpecFair == Init /\ [][NextOnce]_vars /\ WF_vars(Tick) /\ \A w \in Workers : WF_vars(Step(w))

\* The first worker may stop for good wherever it is, holding what it holds;
\* the threads of the others get to run, and time passes.
SpecCrash ==
    Init /\ [][NextOnce]_vars /\ WF_vars(Tick) /\ \A w \in Workers \ {1} : WF_vars(Step(w))

\* A run in which the requests arrive one after another, for get_birthdays.
CallSeq(w, i) ==
    /\ \A v \in Workers \ {w} : pc[v] \in {"idle", "done"}
    /\ Call(w, "get_birthdays", i)

NextSeq ==
    \/ \E w \in Workers, i \in ImportIds : CallSeq(w, i)
    \/ \E w \in Workers, n \in {1, 2} : Lock(w, n)
    \/ \E w \in Workers, n \in {1, 2} : TryGetLock(w, n)
    \/ \E w \in Workers, n \in {1, 2} : Release(w, n)
    \/ \E w \in Workers : Lookup(w)
    \/ \E w \in Workers : Compute(w)
    \/ \E w \in Workers : Cache(w)
    \/ \E w \in Workers : StoreError(w)
    \/ \E w \in Workers : Return(w)
    \/ \E i \in ImportIds : Patch(i)
    \/ Tick

SpecSeq == Init /\ [][NextSeq]_vars

\* One worker calls get_birthdays, again and again, for an import that holds
\* any of the lists of citizens.
InitAgg ==
    /\ locks = [k \in {} |-> 0]
    /\ birthdays = << >>
    /\ \E citizens \in ResidentLists :
            imports = [i \in ImportIds |-> IF i = 1 THEN << citizens >> ELSE << >>]
    /\ pid \in PidAssignments
    /\ pc = [w \in Workers |-> "idle"]
    /\ handler = [w \in Workers |-> "none"]
    /\ iid = [w \in Workers |-> 1]
    /\ start_time = [w \in Workers |-> 0]
    /\ bdata = [w \in Workers |-> NoData]
    /\ ret = [w \in Workers |-> NoRet]
    /\ holder = [k \in Keys |-> 0]
    /\ leases = {}
    /\ inserted = {}
    /\ seen = [w \in Workers |-> 0]
    /\ calls = 0

CallAgg(w) ==
    /\ \A v \in Workers : w <= v
    /\ \E i \in ImportIds : HasImport(i) /\ Call(w, "get_birthdays", i)

NextAgg ==
    \/ \E w \in Workers : CallAgg(w)
    \/ \E w \in Workers, n \in {1, 2} : Lock(w, n)
    \/ \E w \in Workers, n \in {1, 2} : TryGetLock(w, n)
    \/ \E w \in Workers, n \in {1, 2} : Release(w, n)
    \/ \E w \in Workers : Lookup(w)
    \/ \E w \in Workers : Compute(w)
    \/ \E w \in Workers : Cache(w)
    \/ \E w \in Workers : Return(w)

SpecAgg == InitAgg /\ [][NextAgg]_vars

\* ------------------------------------------------------------------- claims
Birthdays(w) == handler[w] = "get_birthdays"
\* Between the cache lookup and the cache insert: steps 2-5 of get_birthdays.
InSteps2To5(w) == Birthdays(w) /\ pc[w] \in {"lookup", "citizens", "insert"}
Returned(w) == Birthdays(w) /\ pc[w] = "done"
Live(l) == l.expire >= utcnow

\* C1: for one import_id, at most one worker is between the cache lookup and
\* the cache insert of get_birthdays, lease expiry included.
C1_OneWorkerInSteps2To5 ==
    \A w1, w2 \in Workers :
        InSteps2To5(w1) /\ InSteps2To5(w2) /\ iid[w1] = iid[w2] => w1 = w2

\* C2: the 'birthdays' collection holds at most one document per import_id.
C2_OneRecordPerImport ==
    \A i \in ImportIds : Cardinality(Matching(birthdays, i)) <= 1

C4_ExactlyOneComputes ==
    /\ \A w1, w2 \in inserted : iid[w1] = iid[w2] => w1 = w2
    /\ \A w \in Workers :
        Returned(w) /\ HasImport(iid[w]) =>
            /\ ret[w].kind \in {"value", "LockTimeout", "StoreUnavailable"}
            /\ ret[w].kind = "value" =>
                /\ Matching(birthdays, iid[w]) # {}
                /\ ret[w].content = Project(First(birthdays, iid[w]))
                /\ DOMAIN ret[w].content.data = MonthKeys

\* C5: sequential get_birthdays calls for one import_id return the same
\* (content, status), status 201, on the compute path and on the cache-hit
\* path, and the insert runs at most once.
C5_SequentialCallsAgree ==
    /\ \A w1, w2 \in Workers :
        /\ Birthdays(w1) /\ Birthdays(w2) /\ iid[w1] = iid[w2]
        /\ ret[w1].kind = "value" /\ ret[w2].kind = "value"
        => /\ ret[w1].content = ret[w2].content
           /\ ret[w1].status = ret[w2].status
           /\ ret[w1].status = 201
    /\ \A i \in ImportIds : Cardinality(Matching(birthdays, i)) <= 1

\* C5 witness: a call that computed and a later call that hit the cache have
\* both returned.
C5_Witness ==
    \E w1, w2 \in Workers :
        /\ Returned(w1) /\ Returned(w2) /\ iid[w1] = iid[w2]
        /\ ret[w1].kind = "value" /\ ret[w2].kind = "value"
        /\ w1 \in inserted /\ w2 \notin inserted

\* C6: a worker whose call has returned or raised holds no lease: no lock
\* document is still locked by an acquisition of that call.
C6_NoLeaseOutlivesCall ==
    \A w \in Workers :
        pc[w] \in {"done", "idle"} =>
            \A k \in DOMAIN locks : ~(locks[k].locked /\ holder[k] = w)

\* C6 witness: a get_birthdays call has left the block with an error, its
\* leases were taken, and it has returned.
C6_Witness ==
    \E w \in Workers :
        /\ Returned(w) /\ ret[w].kind \in {"NotFound", "StoreUnavailable"}
        /\ ImportKey(iid[w]) \in DOMAIN locks /\ BirthdaysKey(iid[w]) \in DOMAIN locks

\* C7: once the acquisition of a lease has timed out, the call's outcome is
\* the lock-timeout error until it has returned, and the call inserts nothing.
C7_TimeoutWritesNothing ==
    [][\A w \in Workers :
        ret[w].kind = "LockTimeout" =>
            /\ w \notin inserted /\ w \notin inserted'
            /\ pc[w] # "done" => ret'[w] = ret[w]]_vars

\* C7 witness: get_birthdays holds the first lease and has timed out on the
\* second.
C7_Witness ==
    \E w \in Workers :
        /\ Birthdays(w) /\ pc[w] = "release1" /\ ret[w].kind = "LockTimeout"
        /\ holder[ImportKey(iid[w])] = w

\* C8: get_birthdays for an import_id without a dataset returns no value and
\* inserts nothing, failing with the reader's not-found error unless a lease
\* or the store failed first; no document exists for such an import_id.
C8_NotFoundWritesNothing ==
    /\ \A w \in Workers :
        Birthdays(w) /\ ~HasImport(iid[w]) =>
            /\ w \notin inserted
            /\ ret[w].kind \in {"none", "NotFound", "LockTimeout", "StoreUnavailable"}
            /\ pc[w] # "insert"
    /\ \A i \in ImportIds : ~HasImport(i) => Matching(birthdays, i) = {}

\* C8 witness: a call for the import_id without a dataset has raised not-found.
C8_Witness ==
    \E w \in Workers : Returned(w) /\ ~HasImport(iid[w]) /\ ret[w].kind = "NotFound"

\* C9: every document of 'birthdays', and every value a reader is given, has
\* exactly the twelve month keys "1".."12".
TwelveMonths == {"1", "2", "3", "4", "5", "6", "7", "8", "9", "10", "11", "12"}
C9_RecordsAreComplete ==
    /\ \A j \in 1..Len(birthdays) : DOMAIN birthdays[j].data = TwelveMonths
    /\ \A w \in Workers :
        Birthdays(w) /\ ret[w].kind = "value" => DOMAIN ret[w].content.data = TwelveMonths

\* C9 witness: a document with a month that has presents is stored and a
\* reader has been given it from the cache.
C9_Witness ==
    \E w \in Workers :
        /\ Returned(w) /\ ret[w].kind = "value" /\ w \notin inserted
        /\ \E k \in TwelveMonths : ret[w].content.data[k] # << >>

\* C10: a get_birthdays call that began after a document for its import_id was
\* stored returns exactly that document's data.
C10_LaterCallsReturnStored ==
    \A w \in Workers :
        Birthdays(w) /\ ret[w].kind = "value" =>
            \A j \in 1..seen[w] :
                birthdays[j].import_id = iid[w] => ret[w].content = Project(birthdays[j])

\* --------------------------------------------------------- claims on waiting
\* w is in the retry loop of its n-th lock().
Waiting(w, n) == pc[w] \in {PcTry(n), PcCheck(n)}
\* The document of the key is locked by an acquisition of v.
HeldBy(key, v) == DuplicateKey(locks, key) /\ locks[key].locked /\ holder[key] = v
\* w waits for a lease that v holds.
WaitsFor(w, v) == v # w /\ \E n \in {1, 2} : Waiting(w, n) /\ HeldBy(KeyOf(w, n), v)
\* w waits for a lease of v that has not expired.
WaitsForLive(w, v) ==
    v # w /\ \E n \in {1, 2} :
        Waiting(w, n) /\ HeldBy(KeyOf(w, n), v) /\ locks[KeyOf(w, n)].expire >= utcnow

\* C11: the resource names of distinct import_ids are pairwise distinct, and a
\* get_birthdays call waits (and so times out) only on a lease held by a call
\* for its own import_id.
C11_DistinctImportsDoNotBlock ==
    /\ \A a, b \in ImportIds :
        a # b => Cardinality({ImportKey(a), BirthdaysKey(a), ImportKey(b), BirthdaysKey(b)}) = 4
    /\ \A w, v \in Workers : Birthdays(w) /\ WaitsFor(w, v) => iid[v] = iid[w]

\* C11 witness: two get_birthdays calls for distinct import_ids are inside the
\* block at once, each holding both of its leases.
C11_Witness ==
    \E w1, w2 \in Workers :
        /\ iid[w1] # iid[w2] /\ InSteps2To5(w1) /\ InSteps2To5(w2)
        /\ \A n \in {1, 2} : HeldBy(KeyOf(w1, n), w1) /\ HeldBy(KeyOf(w2, n), w2)

\* C12: every get_birthdays call comes to its end, so that no call waits for
\* a lease for ever; an acquisition is given up only once timeout has passed
\* since it began, and then with the lock-timeout error, which is what the
\* call ends with: not with not-found and not with a value.
C12_EveryCallTerminates ==
    /\ <>[](\A w \in Workers : pc[w] \in {"idle", "done"})
    /\ [][\A w \in Workers :
            /\ \A n \in {1, 2} :
                pc[w] = PcCheck(n) /\ pc'[w] \notin {PcCheck(n), PcTry(n)}
                    => /\ utcnow >= start_time[w] + Timeout
                       /\ ret'[w] = Raise("LockTimeout")
                       /\ pc'[w] \in {"release1", "done"}
            /\ ret[w] = Raise("LockTimeout") /\ pc'[w] = "done"
                    => ret'[w] = Raise("LockTimeout")]_vars

\* C12 witness: a get_birthdays call has ended with the lock-timeout error of
\* its second acquisition.
C12_Witness ==
    \E w \in Workers :
        /\ Returned(w) /\ ret[w].kind = "LockTimeout"
        /\ \E v \in Workers \ {w} : HeldBy(BirthdaysKey(iid[w]), v)

\* C13: a release by a worker that is not the holder leaves the live lease of
\* another worker as it is, whichever processes the two workers are threads of
\* (and a release of an expired or released lease just returns).
C13_OnlyHolderReleases ==
    [][\A w \in Workers, n \in {1, 2} :
        /\ pc[w] = PcRelease(n) /\ pc'[w] = PcReleased(n)
        /\ \E v \in Workers \ {w} : HeldBy(KeyOf(w, n), v)
        /\ locks[KeyOf(w, n)].expire >= utcnow
        => locks'[KeyOf(w, n)] = locks[KeyOf(w, n)]]_vars

\* The lease on the key has expired.
Expired(key) == DuplicateKey(locks, key) /\ locks[key].locked /\ locks[key].expire < utcnow

\* C14: a worker that stops for good does not block the others for ever: an
\* acquisition attempt on a lease whose expire has passed is granted,
\* whoever holds it, an attempt fails only on a lease that has not expired,
\* and the calls of the other workers come to their end.
C14_ExpiredLeaseIsReclaimed ==
    /\ <>[](\A w \in Workers \ {1} : pc[w] \in {"idle", "done"})
    /\ [][\A w \in Workers : \A n \in {1, 2} :
            pc[w] = PcTry(n) /\ pc'[w] # PcTry(n)
                => IF Expired(KeyOf(w, n))
                   THEN /\ pc'[w] = PcLocked(w, n)
                        /\ locks'[KeyOf(w, n)] = LockedDoc(Owner(w), utcnow + Expire)
                   ELSE pc'[w] = PcCheck(n) => HeldBy(KeyOf(w, n), holder[KeyOf(w, n)])]_vars

\* C14 witness: a worker is stopped inside the block with a lease that has
\* expired; another worker has taken the lease over and its call has returned
\* a value.
C14_Witness ==
    \E w, v \in Workers :
        /\ w # v /\ InSteps2To5(w) /\ Returned(v) /\ ret[v].kind = "value" /\ iid[v] = iid[w]
        /\ \E l \in leases : l.worker = w /\ l.key = ImportKey(iid[w]) /\ ~Live(l)

\* Some workers wait, each for a live lease of another of them.
Cycle == \E S \in SUBSET Workers \ {{}} : \A w \in S : \E v \in S : WaitsForLive(w, v)

\* C18: get_birthdays goes on to f'birthdays_{import_id}' in the step that
\* grants it str(import_id), is granted the second lease only from there,
\* releases the second before the first, and no workers wait in a cycle, each
\* for a live lease of another.
C18_OrderedAcquisitionNoCycle ==
    /\ [](~Cycle)
    /\ [](\A w \in Workers :
            Birthdays(w) /\ pc[w] \in {"release1", "done"}
                => ~HeldBy(BirthdaysKey(iid[w]), w))
    /\ [][\A w \in Workers :
            /\ pc'[w] = "lock2" /\ pc[w] # "lock2"
                => /\ ~HeldBy(ImportKey(iid[w]), w)
                   /\ holder'[ImportKey(iid[w])] = w
                   /\ ~HeldBy(BirthdaysKey(iid[w]), w)
            /\ holder'[BirthdaysKey(iid[w])] = w /\ holder[BirthdaysKey(iid[w])] # w
                => pc[w] \in {"lock2", "try2"} /\ pc'[w] = "lookup"
            /\ pc[w] = "release2" /\ pc'[w] # "release2" => pc'[w] = "release1"]_vars

\* C18 witness: a get_birthdays call has released its second lease and still
\* holds the first, live, for which another worker waits.
C18_Witness ==
    \E w, v \in Workers :
        /\ Birthdays(v) /\ pc[v] = "release1" /\ ret[v].kind = "value"
        /\ WaitsForLive(w, v)
        /\ ~locks[BirthdaysKey(iid[v])].locked

\* C19: a get_birthdays call that began with the aggregate of its import_id
\* stored neither waits for a lease held by another worker nor times out.
C19_CachedReadNeedsNoLease ==
    \A w \in Workers :
        Birthdays(w) /\ (\E j \in 1..seen[w] : birthdays[j].import_id = iid[w])
            => /\ ret[w].kind # "LockTimeout"
               /\ \A v \in Workers : ~WaitsFor(w, v)

\* ------------------------------------------------- claims on the aggregation
\* The aggregates of a state with the citizens they were made from: the one a
\* worker is about to cache, the stored ones and the returned ones.
Aggregates ==
    {[data |-> bdata[w].data, citizens |-> get_citizens(iid[w])] :
        w \in {v \in Workers : pc[v] = "insert"}}
    \cup {[data |-> birthdays[j].data, citizens |-> get_citizens(birthdays[j].import_id)] :
        j \in 1..Len(birthdays)}
    \cup {[data |-> ret[w].content.data, citizens |-> get_citizens(iid[w])] :
        w \in {v \in Workers : Birthdays(v) /\ ret[v].kind = "value"}}

\* The (resident, position) pairs at which c is a relative of a resident born in
\* month m.
Occurrences(citizens, m, c) ==
    {p \in UNION {{<<j, r>> : r \in 1..Len(citizens[j].relatives)} : j \in 1..Len(citizens)} :
        /\ citizens[p[1]].birth_date.month = m
        /\ citizens[p[1]].relatives[p[2]] = c}
Presents(citizens, m, c) == Cardinality(Occurrences(citizens, m, c))
Entries(list) == {list[j] : j \in 1..Len(list)}

\* C15: in every aggregate, month m lists citizen c with presents = the number
\* of times c occurs in the relatives of the residents born in month m,
\* repeated entries counted each, and lists nobody else; the residents
\* {month 3, relatives [2, 3]}, {month 3, relatives [2]} give month "3" ->
\* {2: 2, 3: 1} and every other month empty.
C15_PresentsAreOccurrences ==
    /\ \A a \in Aggregates : \A m \in 1..12 :
        /\ Entries(a.data[Str(m)]) =
              {[citizen_id |-> c, presents |-> Presents(a.citizens, m, c)] :
                  c \in {d \in CitizenIds : Presents(a.citizens, m, d) > 0}}
        /\ Len(a.data[Str(m)]) = Cardinality(Entries(a.data[Str(m)]))
    /\ LET example == _get_birthdays_representation(_get_birthdays_data(Citizens(1))).data
       IN  /\ Entries(example["3"]) =
                 {[citizen_id |-> 2, presents |-> 2], [citizen_id |-> 3, presents |-> 1]}
           /\ \A k \in DOMAIN example \ {"3"} : example[k] = << >>

\* C15 witness: a stored aggregate lists, in one month, a citizen counted
\* twice next to one counted once.
C15_Witness ==
    \E j \in 1..Len(birthdays) : \E k \in DOMAIN birthdays[j].data :
        /\ Len(birthdays[j].data[k]) = 2
        /\ \E e \in 1..2 : birthdays[j].data[k][e].presents = 2
        /\ \E e \in 1..2 : birthdays[j].data[k][e].presents = 1

\* C16: whatever the citizens, an empty list and citizens without relatives
\* included, the aggregate computed, stored or returned from the cache has
\* the month keys "1".."12" and no others, and a month in which no resident
\* with relatives is born has the empty list.
C16_AllMonthsAlways ==
    \A a \in Aggregates :
        /\ DOMAIN a.data = TwelveMonths
        /\ \A m \in 1..12 :
            (\A j \in 1..Len(a.citizens) :
                a.citizens[j].birth_date.month = m => a.citizens[j].relatives = << >>)
            => a.data[Str(m)] = << >>

\* C16 witness: the aggregate of an import without citizens has been returned
\* from the cache.
C16_Witness ==
    \E w \in Workers :
        /\ Returned(w) /\ ret[w].kind = "value" /\ w \notin inserted
        /\ get_citizens(iid[w]) = << >>

\* The citizens in another order.
Orders(n) == {p \in [1..n -> 1..n] : \A a, b \in 1..n : p[a] = p[b] => a = b}
Permute(citizens, p) == [j \in 1..Len(citizens) |-> citizens[p[j]]]
MonthSets(data) == [k \in DOMAIN data |-> Entries(data[k])]

\* C17: the aggregate of the citizens in any other order has, month by month,
\* the same set of (citizen_id, presents) entries.
C17_OrderIndependent ==
    \A a \in Aggregates : \A p \in Orders(Len(a.citizens)) :
        MonthSets(_get_birthdays_representation(
            _get_birthdays_data(Permute(a.citizens, p))).data) = MonthSets(a.data)

\* C17 witness: an aggregate is about to be cached whose citizens, in another
\* order, give a month's entries in another order.
C17_Witness ==
    \E w \in Workers :
        /\ pc[w] = "insert"
        /\ \E p \in Orders(Len(get_citizens(iid[w]))) :
            _get_birthdays_representation(
                _get_birthdays_data(Permute(get_citizens(iid[w]), p))) # bdata[w]

\* C20: in every aggregate a citizen_id occurs at most once in a month's list
\* and every entry has presents >= 1.
C20_EntriesUniqueAndPositive ==
    \A a \in Aggregates : \A k \in DOMAIN a.data :
        /\ \A e1, e2 \in 1..Len(a.data[k]) :
            a.data[k][e1].citizen_id = a.data[k][e2].citizen_id => e1 = e2
        /\ \A e \in 1..Len(a.data[k]) : a.data[k][e].presents >= 1

\* C20 witness: a stored aggregate lists one citizen alone in a month, counted
\* twice, while the other citizen is nobody's relative in that month.
C20_Witness ==
    \E j \in 1..Len(birthdays) : \E k \in DOMAIN birthdays[j].data :
        /\ Len(birthdays[j].data[k]) = 1
        /\ birthdays[j].data[k][1].presents = 2

====
